---- MODULE Spec2Model ----
(***************************************************************************)
(* Model of src/src/main.rs: the Post entity, the PostManager that owns    *)
(* the id-keyed collection of posts and the counter next_id, and the       *)
(* persistence of the whole manager to posts.json after every mutation.    *)
(***************************************************************************)
EXTENDS Integers, Sequences, FiniteSets, TLC

(* ------------------------------ bounds --------------------------------- *)

\* create_post is offered while next_id <= MaxPosts
MaxPosts == 2
\* a behaviour takes at most MaxSteps steps that change the manager or the
\* file: calls of save_data (one per successful mutation) and restarts
MaxSteps == 3
\* at most MaxBadWrites of them fail to write
MaxBadWrites == 1
\* the number of bits of a usize in the model (64 in the program); the ids,
\* the counters and next_id are usize
UsizeBits == 4
UsizeMax == 2 ^ UsizeBits - 1

\* texts typed as post content and as comments
Contents == {"a", "b"}
Comments == {"x", "y"}
\* the content typed in the runs that find a stored file
LaterContents == {"c"}
\* the comment typed at the menu of the runs that find an edited file
LaterComments == {"z"}
\* ids passed to the operations: 0 (what a non-numeric id parses to) and
\* the ids create_post can allocate
Ids == 0 .. MaxPosts

VARIABLES
    posts,      \* PostManager.posts: function from the present ids to Post
    next_id,    \* PostManager.next_id
    file,       \* content of posts.json
    last,       \* the operation that ran last and what it reported
    created,    \* number of create_post calls of this run
    deleted,    \* ids removed by delete_post in this run
    log,        \* per id, the texts of the successful add_comment calls
    mutated,    \* a successful mutating operation has completed in this run
    lastSave,   \* outcome of the most recent save_data of this run
    badWrites,  \* number of writes that failed
    saves,      \* number of save_data calls
    restarts,   \* number of times the process was started again
    pc,         \* "running", or "panicked" when the process has aborted
    typed,      \* the lines read from stdin for the last menu action
    returned    \* the pairs <<run, id>> of the ids create_post returned

vars == <<posts, next_id, file, last, created, deleted, log, mutated,
          lastSave, badWrites, saves, restarts, pc, typed, returned>>

(* ------------------------- decimal numbers ----------------------------- *)

\* a usize formatted in decimal ({} of format!, a JSON number, a JSON map
\* key): the sequence of its digits, most significant first
RECURSIVE ToDigits(_)
ToDigits(n) ==
    IF n < 10 THEN <<n>> ELSE ToDigits(n \div 10) \o <<n % 10>>

\* a digit sequence is a JSON number when it is not empty and has no
\* leading zero
IsNumber(d) ==
    /\ Len(d) >= 1
    /\ \A i \in 1 .. Len(d) : d[i] \in 0 .. 9
    /\ (Len(d) > 1 => d[1] # 0)

RECURSIVE FromDigits(_)
FromDigits(d) ==
    IF Len(d) = 0 THEN 0
    ELSE 10 * FromDigits(SubSeq(d, 1, Len(d) - 1)) + d[Len(d)]

\* a JSON number that fits a usize
IsUsize(d) == IsNumber(d) /\ FromDigits(d) <= UsizeMax

\* n += 1 on a usize: below the largest value the sum; at the largest value
\* a build with overflow checks (debug) panics and one without (release)
\* wraps to 0
AddOne(n) == (n + 1) % (UsizeMax + 1)

AddOneOutcomes(n) == IF n < UsizeMax THEN {"ok"} ELSE {"wrap", "panic"}

(* ------------------------------- Post ---------------------------------- *)

Post_new(id, content) ==
    [id |-> id, content |-> content, comments |-> << >>,
     likes |-> 0, dislikes |-> 0]

\* comment pushed at the front
Post_add_comment_front(post, comment) ==
    [post EXCEPT !.comments = <<comment>> \o post.comments]

\* comment assigned instead of pushed
Post_add_comment_only(post, comment) ==
    [post EXCEPT !.comments = <<comment>>]

Post_add_comment(post, comment) ==
    [post EXCEPT !.comments = Append(post.comments, comment)]

Post_like(post) == [post EXCEPT !.likes = AddOne(post.likes)]

\* dislike written as a copy of like
Post_dislike_as_like(post) == [post EXCEPT !.likes = AddOne(post.likes)]

Post_dislike(post) == [post EXCEPT !.dislikes = AddOne(post.dislikes)]

\* a share_link that always names the first post
share_link_of_first(post) == <<"http://myapp.com/post/", ToDigits(1)>>

share_link(post) == <<"http://myapp.com/post/", ToDigits(post.id)>>

(* ------------------------------ HashMap -------------------------------- *)

EmptyMap == [k \in {} |-> 0]

contains_key(m, k) == k \in DOMAIN m

insert(m, k, v) ==
    [x \in (DOMAIN m) \cup {k} |-> IF x = k THEN v ELSE m[x]]

\* a removal with the test the wrong way round
remove_others(m, k) == [x \in (DOMAIN m) \cap {k} |-> m[x]]

remove(m, k) == [x \in (DOMAIN m) \ {k} |-> m[x]]

\* the orders in which a HashMap with key set S can be iterated
Orders(S) ==
    {o \in [1 .. Cardinality(S) -> S] : \A i, j \in DOMAIN o : o[i] = o[j] => i = j}

(* --------------------------- posts.json -------------------------------- *)

\* no file / a file that cannot be read as text
Absent == [kind |-> "absent"]
\* text that is no JSON document of a PostManager; a write that failed
\* after the file was truncated leaves such text
Garbage == [kind |-> "garbage"]

SerializePost(p) ==
    [id |-> ToDigits(p.id), content |-> p.content, comments |-> p.comments,
     likes |-> ToDigits(p.likes), dislikes |-> ToDigits(p.dislikes)]

\* serde_json::to_string(&self): the map's entries in iteration order ord,
\* each key as a decimal string, then next_id
Serialize(p, n, ord) ==
    [kind |-> "json",
     posts |-> [i \in DOMAIN ord |-> <<ToDigits(ord[i]), SerializePost(p[ord[i]])>>],
     next_id |-> ToDigits(n)]

ParsesPost(j) ==
    IsUsize(j.id) /\ IsUsize(j.likes) /\ IsUsize(j.dislikes)

DeserializePost(j) ==
    [id |-> FromDigits(j.id), content |-> j.content, comments |-> j.comments,
     likes |-> FromDigits(j.likes), dislikes |-> FromDigits(j.dislikes)]

\* serde_json::from_str::<PostManager> returns Ok
Parses(f) ==
    /\ f.kind = "json"
    /\ IsUsize(f.next_id)
    /\ \A i \in DOMAIN f.posts : IsUsize(f.posts[i][1]) /\ ParsesPost(f.posts[i][2])

\* the map built from the members in document order: a later member with
\* the same key replaces an earlier one
RECURSIVE DeserializeMap(_)
DeserializeMap(ms) ==
    IF Len(ms) = 0 THEN EmptyMap
    ELSE insert(DeserializeMap(SubSeq(ms, 1, Len(ms) - 1)),
                FromDigits(ms[Len(ms)][1]), DeserializePost(ms[Len(ms)][2]))

\* a deserializer that derives next_id from the number of stored posts
Deserialize_counted(f) ==
    [posts |-> DeserializeMap(f.posts),
     next_id |-> Cardinality(DOMAIN DeserializeMap(f.posts)) + 1]

Deserialize(f) ==
    [posts |-> DeserializeMap(f.posts), next_id |-> FromDigits(f.next_id)]

(* --------------------------- PostManager ------------------------------- *)

\* a constructor that takes whatever JSON it finds
PostManager_new_unchecked(f) ==
    IF f.kind = "json"
    THEN Deserialize(f)
    ELSE [posts |-> EmptyMap, next_id |-> 1]

\* a constructor that takes the stored posts and starts the counter again
PostManager_new_recounting(f) ==
    IF f.kind # "absent" /\ Parses(f)
    THEN [posts |-> Deserialize(f).posts, next_id |-> 1]
    ELSE [posts |-> EmptyMap, next_id |-> 1]

\* PostManager::new: the stored manager when posts.json reads and parses,
\* otherwise an empty one
PostManager_new(f) ==
    IF f.kind # "absent" /\ Parses(f)
    THEN Deserialize(f)
    ELSE [posts |-> EmptyMap, next_id |-> 1]

\* a write whose failure removes the file
WriteOutcomes_removing(f, data) ==
    {[file |-> data, res |-> "ok"],
     [file |-> Absent, res |-> "failed"],
     [file |-> Garbage, res |-> "torn"]}

\* fs::write(path, data): open with create+truncate, then write everything.
\* "ok" the file holds data; "failed" the open failed and the file is as it
\* was; "torn" the write failed after the truncation
WriteOutcomes(f, data) ==
    {[file |-> data, res |-> "ok"],
     [file |-> f, res |-> "failed"],
     [file |-> Garbage, res |-> "torn"]}

\* the step budget allows another save
MaySave == saves + restarts < MaxSteps

\* save_data: serialize the whole manager and write it; the result of the
\* write is dropped
save_data(p, n) ==
    \E ord \in Orders(DOMAIN p) :
      \E w \in WriteOutcomes(file, Serialize(p, n, ord)) :
        /\ (w.res # "ok" => badWrites < MaxBadWrites)
        /\ file' = w.file
        /\ lastSave' = w.res
        /\ badWrites' = IF w.res = "ok" THEN badWrites ELSE badWrites + 1
        /\ saves' = saves + 1

\* a not-found branch that saves all the same
not_found_saving(op, id) ==
    /\ MaySave
    /\ last' = [op |-> op, id |-> id, found |-> FALSE, out |-> "does not exist"]
    /\ save_data(posts, next_id)
    /\ UNCHANGED <<posts, next_id, created, deleted, log, mutated, restarts,
                   pc, returned>>

\* the not-found branch: a message, nothing else
not_found(op, id) ==
    /\ last' = [op |-> op, id |-> id, found |-> FALSE, out |-> "does not exist"]
    /\ UNCHANGED <<posts, next_id, file, created, deleted, log, mutated,
                   lastSave, badWrites, saves, restarts, pc, returned>>

\* the process ends, by a panic or by leaving main: the manager and what the
\* run knew are gone, posts.json is all that is left
gone(how) ==
    /\ pc' = how
    /\ posts' = EmptyMap
    /\ next_id' = 0
    /\ created' = 0
    /\ deleted' = {}
    /\ log' = [k \in Ids |-> << >>]
    /\ mutated' = FALSE
    /\ lastSave' = "none"
    /\ UNCHANGED <<file, badWrites, saves, restarts, returned>>

\* an overflowing n += 1 of a build with overflow checks: the thread
\* panics inside the operation, before any save
panicked(op, id) ==
    /\ last' = [op |-> op, id |-> id, found |-> TRUE, out |-> "panic"]
    /\ gone("panicked")

\* create_post is offered while next_id <= MaxPosts, and at the largest usize
MayCreate == (next_id <= MaxPosts \/ next_id = UsizeMax) /\ MaySave

\* a create_post that derives the next id from the number of posts
create_post_by_len(content) ==
    /\ pc = "running"
    /\ MayCreate
    /\ posts' = insert(posts, next_id, Post_new(next_id, content))
    /\ next_id' = Cardinality(DOMAIN posts') + 1
    /\ save_data(posts', next_id')
    /\ last' = [op |-> "create_post", id |-> next_id' - 1, found |-> TRUE,
                out |-> content]
    /\ created' = created + 1
    /\ log' = [log EXCEPT ![next_id] = << >>]
    /\ mutated' = TRUE
    /\ returned' = returned \cup {<<restarts, next_id' - 1>>}
    /\ UNCHANGED <<deleted, restarts, pc>>

\* a create_post that gives the new post the smallest id not in use
create_post_fill_gap(content) ==
    LET id == CHOOSE i \in 1 .. (MaxPosts + 1) :
                  /\ i \notin DOMAIN posts
                  /\ \A j \in 1 .. (i - 1) : j \in DOMAIN posts
    IN  /\ pc = "running"
        /\ MayCreate
        /\ posts' = insert(posts, id, Post_new(id, content))
        /\ next_id' = next_id + 1
        /\ save_data(posts', next_id')
        /\ last' = [op |-> "create_post", id |-> id, found |-> TRUE,
                    out |-> content]
        /\ created' = created + 1
        /\ log' = [log EXCEPT ![id] = << >>]
        /\ mutated' = TRUE
        /\ returned' = returned \cup {<<restarts, id>>}
        /\ UNCHANGED <<deleted, restarts, pc>>

\* create_post: the post is inserted under next_id (replacing a post stored
\* under that key), next_id += 1, save_data, and next_id - 1 is returned
create_post(content) ==
    /\ pc = "running"
    /\ MayCreate
    /\ \E o \in AddOneOutcomes(next_id) :
         IF o = "panic"
         THEN panicked("create_post", next_id)
         ELSE /\ posts' = insert(posts, next_id, Post_new(next_id, content))
              /\ created' = created + 1
              /\ next_id' = AddOne(next_id)
              /\ save_data(posts', next_id')
              /\ last' = [op |-> "create_post",
                          id |-> (next_id' + UsizeMax) % (UsizeMax + 1),
                          found |-> TRUE, out |-> content]
              /\ log' = [log EXCEPT ![next_id] = << >>]
              /\ mutated' = TRUE
              /\ returned' = returned \cup {<<restarts, last'.id>>}
              /\ UNCHANGED <<deleted, restarts, pc>>

add_comment(post_id, comment) ==
    /\ pc = "running"
    /\ IF contains_key(posts, post_id)
       THEN /\ MaySave
            /\ posts' = [posts EXCEPT ![post_id] = Post_add_comment(@, comment)]
            /\ save_data(posts', next_id)
            /\ last' = [op |-> "add_comment", id |-> post_id, found |-> TRUE,
                        out |-> comment]
            /\ log' = [log EXCEPT ![post_id] = Append(@, comment)]
            /\ mutated' = TRUE
            /\ UNCHANGED <<next_id, created, deleted, restarts, pc, returned>>
       ELSE not_found("add_comment", post_id)

like_post(post_id) ==
    /\ pc = "running"
    /\ IF contains_key(posts, post_id)
       THEN /\ MaySave
            /\ \E o \in AddOneOutcomes(posts[post_id].likes) :
                 IF o = "panic"
                 THEN panicked("like_post", post_id)
                 ELSE /\ posts' = [posts EXCEPT ![post_id] = Post_like(@)]
                      /\ save_data(posts', next_id)
                      /\ last' = [op |-> "like_post", id |-> post_id,
                                  found |-> TRUE, out |-> ""]
                      /\ mutated' = TRUE
                      /\ UNCHANGED <<next_id, created, deleted, log, restarts,
                                     pc, returned>>
       ELSE not_found("like_post", post_id)

\* a dislike_post that forgets to save
dislike_post_unsaved(post_id) ==
    /\ pc = "running"
    /\ IF contains_key(posts, post_id)
       THEN /\ posts' = [posts EXCEPT ![post_id] = Post_dislike(@)]
            /\ last' = [op |-> "dislike_post", id |-> post_id, found |-> TRUE,
                        out |-> ""]
            /\ mutated' = TRUE
            /\ posts[post_id].dislikes < MaxSteps
            /\ UNCHANGED <<next_id, file, created, deleted, log, lastSave,
                           badWrites, saves, restarts, pc, returned>>
       ELSE not_found("dislike_post", post_id)

dislike_post(post_id) ==
    /\ pc = "running"
    /\ IF contains_key(posts, post_id)
       THEN /\ MaySave
            /\ \E o \in AddOneOutcomes(posts[post_id].dislikes) :
                 IF o = "panic"
                 THEN panicked("dislike_post", post_id)
                 ELSE /\ posts' = [posts EXCEPT ![post_id] = Post_dislike(@)]
                      /\ save_data(posts', next_id)
                      /\ last' = [op |-> "dislike_post", id |-> post_id,
                                  found |-> TRUE, out |-> ""]
                      /\ mutated' = TRUE
                      /\ UNCHANGED <<next_id, created, deleted, log, restarts,
                                     pc, returned>>
       ELSE not_found("dislike_post", post_id)

delete_post(post_id) ==
    /\ pc = "running"
    /\ IF contains_key(posts, post_id)
       THEN /\ MaySave
            /\ posts' = remove(posts, post_id)
            /\ save_data(posts', next_id)
            /\ last' = [op |-> "delete_post", id |-> post_id, found |-> TRUE,
                        out |-> "has been deleted"]
            /\ deleted' = deleted \cup {post_id}
            /\ log' = [log EXCEPT ![post_id] = << >>]
            /\ mutated' = TRUE
            /\ UNCHANGED <<next_id, created, restarts, pc, returned>>
       ELSE not_found("delete_post", post_id)

\* a share_post that saves after printing the link
share_post_saving(post_id) ==
    /\ pc = "running"
    /\ IF contains_key(posts, post_id)
       THEN /\ MaySave
            /\ last' = [op |-> "share_post", id |-> post_id, found |-> TRUE,
                        out |-> share_link(posts[post_id])]
            /\ save_data(posts, next_id)
            /\ UNCHANGED <<posts, next_id, created, deleted, log, mutated,
                           restarts, pc, returned>>
       ELSE not_found("share_post", post_id)

share_post(post_id) ==
    /\ pc = "running"
    /\ IF contains_key(posts, post_id)
       THEN /\ last' = [op |-> "share_post", id |-> post_id, found |-> TRUE,
                        out |-> share_link(posts[post_id])]
            /\ UNCHANGED <<posts, next_id, file, created, deleted, log, mutated,
                           lastSave, badWrites, saves, restarts, pc, returned>>
       ELSE not_found("share_post", post_id)

display_posts ==
    /\ pc = "running"
    /\ last' = [op |-> "display_posts", id |-> 0, found |-> TRUE,
                out |-> {posts[k] : k \in DOMAIN posts}]
    /\ UNCHANGED <<posts, next_id, file, created, deleted, log, mutated,
                   lastSave, badWrites, saves, restarts, pc, returned>>

(* --------------------------- specification ----------------------------- *)

\* nothing has been read from stdin: the manager is called directly
NoLines == [choice |-> << >>, id |-> << >>]

\* main up to the loop: the manager PostManager::new builds from file f,
\* and the bookkeeping of a run that starts
Start(f) ==
    [posts |-> PostManager_new(f).posts,
     next_id |-> PostManager_new(f).next_id,
     last |-> [op |-> "new", id |-> 0, found |-> f.kind # "absent" /\ Parses(f),
               out |-> IF f.kind # "absent" /\ Parses(f) THEN "loaded" ELSE "empty"],
     created |-> 0,
     deleted |-> {},
     log |-> [k \in Ids |-> << >>],
     mutated |-> FALSE,
     lastSave |-> "none"]

\* the files a first run can find that make PostManager::new fall back to
\* the empty manager, and the file of an empty manager
FreshFiles == {Absent, Garbage, Serialize(EmptyMap, 1, << >>)}

InitWith(files) ==
    /\ file \in files
    /\ posts = Start(file).posts
    /\ next_id = Start(file).next_id
    /\ last = Start(file).last
    /\ created = Start(file).created
    /\ deleted = Start(file).deleted
    /\ log = Start(file).log
    /\ mutated = Start(file).mutated
    /\ lastSave = Start(file).lastSave
    /\ badWrites = 0
    /\ saves = 0
    /\ restarts = 0
    /\ pc = "running"
    /\ typed = NoLines
    /\ returned = {}

\* one run of the program that finds no stored posts
Init == InitWith(FreshFiles)

Next ==
    \/ \E c \in Contents : create_post(c) /\ UNCHANGED typed
    \/ \E i \in Ids, c \in Comments : add_comment(i, c) /\ UNCHANGED typed
    \/ \E i \in Ids : like_post(i) /\ UNCHANGED typed
    \/ \E i \in Ids : dislike_post(i) /\ UNCHANGED typed
    \/ \E i \in Ids : delete_post(i) /\ UNCHANGED typed
    \/ \E i \in Ids : share_post(i) /\ UNCHANGED typed
    \/ display_posts /\ UNCHANGED typed

Spec == Init /\ [][Next]_vars

(* ------------------- runs that find a stored file ---------------------- *)

\* a stored manager as save_data writes it: post 1 with a comment and a
\* like, next_id 2
StoredDoc ==
    Serialize(insert(EmptyMap, 1,
                     [id |-> 1, content |-> "a", comments |-> <<"x">>,
                      likes |-> 1, dislikes |-> 0]),
              2, <<1>>)

\* an edited file in which key 1 occurs twice
TwiceDoc ==
    [kind |-> "json",
     posts |-> <<<<ToDigits(1), SerializePost(Post_new(1, "a"))>>,
                 <<ToDigits(1), SerializePost(Post_new(1, "b"))>>>>,
     next_id |-> ToDigits(2)]

\* an edited file with a key that is no number: it does not parse
BadKeyDoc ==
    [kind |-> "json",
     posts |-> <<<<<< >>, SerializePost(Post_new(1, "a"))>>>>,
     next_id |-> ToDigits(2)]

StoredFiles == {Absent, Garbage, StoredDoc, TwiceDoc, BadKeyDoc}

InitStored == InitWith(StoredFiles)

\* the process has ended (choice 8, or the terminal was closed); the
\* program is started again and PostManager::new reads posts.json
Restart ==
    /\ saves + restarts < MaxSteps
    /\ restarts' = restarts + 1
    /\ posts' = Start(file).posts
    /\ next_id' = Start(file).next_id
    /\ last' = Start(file).last
    /\ created' = Start(file).created
    /\ deleted' = Start(file).deleted
    /\ log' = Start(file).log
    /\ mutated' = Start(file).mutated
    /\ lastSave' = Start(file).lastSave
    /\ pc' = "running"
    /\ typed' = NoLines
    /\ UNCHANGED <<file, badWrites, saves, returned>>

NextStored ==
    \/ \E c \in LaterContents : create_post(c) /\ UNCHANGED typed
    \/ \E i \in Ids, c \in Comments : add_comment(i, c) /\ UNCHANGED typed
    \/ \E i \in Ids : like_post(i) /\ UNCHANGED typed
    \/ \E i \in Ids : dislike_post(i) /\ UNCHANGED typed
    \/ \E i \in Ids : delete_post(i) /\ UNCHANGED typed
    \/ \E i \in Ids : share_post(i) /\ UNCHANGED typed
    \/ display_posts /\ UNCHANGED typed
    \/ Restart

SpecStored == InitStored /\ [][NextStored]_vars

(* ----------------------- the menu loop of main ------------------------- *)

\* a line of stdin is the sequence of its characters, "\n" included; the
\* empty sequence is what read_line leaves at end of input
Digit == <<"0", "1", "2", "3", "4", "5", "6", "7", "8", "9">>

IsDigit(ch) == \E v \in 1 .. 10 : Digit[v] = ch

DigitValue(ch) == (CHOOSE v \in 1 .. 10 : Digit[v] = ch) - 1

\* a byte sequence that is no UTF-8
BadByte == "0xFF"

Whitespace == {" ", "\n"}

\* str::trim
RECURSIVE trim_start(_)
trim_start(t) ==
    IF Len(t) > 0 /\ t[1] \in Whitespace THEN trim_start(Tail(t)) ELSE t

RECURSIVE trim_end(_)
trim_end(t) ==
    IF Len(t) > 0 /\ t[Len(t)] \in Whitespace
    THEN trim_end(SubSeq(t, 1, Len(t) - 1)) ELSE t

trim(t) == trim_end(trim_start(t))

RECURSIVE DecimalValue(_)
DecimalValue(t) ==
    IF Len(t) = 0 THEN 0
    ELSE 10 * DecimalValue(SubSeq(t, 1, Len(t) - 1)) + DigitValue(t[Len(t)])

\* str::parse::<usize>: an optional "+" and at least one digit, nothing
\* else, and a value that fits
parse(t) ==
    LET body == IF Len(t) > 0 /\ t[1] = "+" THEN Tail(t) ELSE t
    IN  IF /\ Len(body) > 0
           /\ \A i \in 1 .. Len(body) : IsDigit(body[i])
           /\ DecimalValue(body) <= UsizeMax
        THEN [ok |-> TRUE, val |-> DecimalValue(body)]
        ELSE [ok |-> FALSE, val |-> 0]

\* line.trim().parse().unwrap_or(0)
parse_or_0(t) == IF parse(trim(t)).ok THEN parse(trim(t)).val ELSE 0

\* io::stdin().read_line(..) returns Err for a line that is no UTF-8, and
\* main unwraps the result
read_fails(t) == \E i \in 1 .. Len(t) : t[i] = BadByte

\* the line a user types for number n
LineOf(n) == [i \in 1 .. Len(ToDigits(n)) |-> Digit[ToDigits(n)[i] + 1]] \o <<"\n">>

BadLine == <<BadByte, "\n">>

\* a text that is no number
WordLine == <<"x", "\n">>

\* the lines typed at the menu prompt: the choices 1 to 8, a number that is
\* no choice, a word, end of input, and bytes that are no text
ChoiceLines == {LineOf(n) : n \in 1 .. 9} \cup {WordLine, << >>, BadLine}

\* the lines typed at an id prompt
IdLines == {LineOf(n) : n \in Ids} \cup {WordLine, BadLine}

\* the texts typed as content or comment (after trim), and bytes that are
\* no text
BadText == "0xFF"

\* the unwrap of a failed read_line panics
read_panic(choice, id) ==
    /\ last' = [op |-> "read_line", id |-> 0, found |-> FALSE, out |-> "panic"]
    /\ typed' = [choice |-> choice, id |-> id]
    /\ gone("panicked")

\* what main makes of each line typed at the menu prompt and at an id prompt
ChoiceOf == [t \in ChoiceLines |-> parse_or_0(t)]

IdOf == [t \in IdLines |-> parse_or_0(t)]

\* the choice prompt read a line that is no text
main_read_error(choice) ==
    /\ pc = "running"
    /\ read_fails(choice)
    /\ read_panic(choice, << >>)

\* choice 1
main_create(choice, content) ==
    /\ pc = "running"
    /\ ~read_fails(choice) /\ ChoiceOf[choice] = 1
    /\ IF content = BadText
       THEN read_panic(choice, << >>)
       ELSE /\ create_post(content)
            /\ typed' = [choice |-> choice, id |-> << >>]

\* choice 2
main_comment(choice, id, comment) ==
    /\ pc = "running"
    /\ ~read_fails(choice) /\ ChoiceOf[choice] = 2
    /\ IF read_fails(id) \/ comment = BadText
       THEN read_panic(choice, id)
       ELSE /\ add_comment(IdOf[id], comment)
            /\ typed' = [choice |-> choice, id |-> id]

\* choice 3
main_like(choice, id) ==
    /\ pc = "running"
    /\ ~read_fails(choice) /\ ChoiceOf[choice] = 3
    /\ IF read_fails(id)
       THEN read_panic(choice, id)
       ELSE /\ like_post(IdOf[id])
            /\ typed' = [choice |-> choice, id |-> id]

\* choice 4
main_dislike(choice, id) ==
    /\ pc = "running"
    /\ ~read_fails(choice) /\ ChoiceOf[choice] = 4
    /\ IF read_fails(id)
       THEN read_panic(choice, id)
       ELSE /\ dislike_post(IdOf[id])
            /\ typed' = [choice |-> choice, id |-> id]

\* choice 5
main_share(choice, id) ==
    /\ pc = "running"
    /\ ~read_fails(choice) /\ ChoiceOf[choice] = 5
    /\ IF read_fails(id)
       THEN read_panic(choice, id)
       ELSE /\ share_post(IdOf[id])
            /\ typed' = [choice |-> choice, id |-> id]

\* choice 6
main_display(choice) ==
    /\ pc = "running"
    /\ ~read_fails(choice) /\ ChoiceOf[choice] = 6
    /\ display_posts
    /\ typed' = [choice |-> choice, id |-> << >>]

\* choice 7
main_delete(choice, id) ==
    /\ pc = "running"
    /\ ~read_fails(choice) /\ ChoiceOf[choice] = 7
    /\ IF read_fails(id)
       THEN read_panic(choice, id)
       ELSE /\ delete_post(IdOf[id])
            /\ typed' = [choice |-> choice, id |-> id]

\* any other choice: the message, and the loop goes on
main_invalid(choice) ==
    /\ pc = "running"
    /\ ~read_fails(choice) /\ ChoiceOf[choice] \notin 1 .. 8
    /\ last' = [op |-> "invalid_choice", id |-> 0, found |-> FALSE,
                out |-> "Invalid choice. Please try again."]
    /\ typed' = [choice |-> choice, id |-> << >>]
    /\ UNCHANGED <<posts, next_id, file, created, deleted, log, mutated,
                   lastSave, badWrites, saves, restarts, pc, returned>>

\* choice 8: break leaves the loop and main returns
main_exit(choice) ==
    /\ pc = "running"
    /\ ~read_fails(choice) /\ ChoiceOf[choice] = 8
    /\ last' = [op |-> "exit", id |-> 0, found |-> FALSE, out |-> "Exiting..."]
    /\ typed' = [choice |-> choice, id |-> << >>]
    /\ gone("exited")

\* an edited file whose next_id is a key of its posts
StaleDoc ==
    Serialize(insert(EmptyMap, 1,
                     [id |-> 1, content |-> "a", comments |-> <<"x">>,
                      likes |-> 1, dislikes |-> 0]),
              1, <<1>>)

\* an edited file with a post under key 0
ZeroDoc == Serialize(insert(EmptyMap, 0, Post_new(0, "a")), 1, <<0>>)

\* an edited file with the counters and next_id at the largest usize
MaxDoc ==
    Serialize(insert(EmptyMap, 1,
                     [id |-> 1, content |-> "a", comments |-> << >>,
                      likes |-> UsizeMax, dislikes |-> UsizeMax]),
              UsizeMax, <<1>>)

MenuFiles == {Absent, StaleDoc, ZeroDoc, MaxDoc}

InitMenu == InitWith(MenuFiles)

\* the lines of ChoiceLines that main takes for choice k, and those it takes
\* for no choice at all
LinesFor == [k \in 1 .. 8 |-> {t \in ChoiceLines : ~read_fails(t) /\ ChoiceOf[t] = k}]

OtherLines == {t \in ChoiceLines : ~read_fails(t) /\ ChoiceOf[t] \notin 1 .. 8}

UnreadLines == {t \in ChoiceLines : read_fails(t)}

NextMenu ==
    \/ \E ch \in UnreadLines : main_read_error(ch)
    \/ \E ch \in LinesFor[1], c \in LaterContents \cup {BadText} : main_create(ch, c)
    \/ \E ch \in LinesFor[2], i \in IdLines, c \in LaterComments \cup {BadText} :
          main_comment(ch, i, c)
    \/ \E ch \in LinesFor[3], i \in IdLines : main_like(ch, i)
    \/ \E ch \in LinesFor[4], i \in IdLines : main_dislike(ch, i)
    \/ \E ch \in LinesFor[5], i \in IdLines : main_share(ch, i)
    \/ \E ch \in LinesFor[6] : main_display(ch)
    \/ \E ch \in LinesFor[7], i \in IdLines : main_delete(ch, i)
    \/ \E ch \in OtherLines : main_invalid(ch)
    \/ \E ch \in LinesFor[8] : main_exit(ch)

SpecMenu == InitMenu /\ [][NextMenu]_vars

(* ------------------------------ claims --------------------------------- *)

\* the operations that take an id
IdOps == {"add_comment", "like_post", "dislike_post", "delete_post", "share_post"}

\* posts.json holds exactly the manager that is in memory
FileHoldsState ==
    /\ file.kind = "json"
    /\ Parses(file)
    /\ Deserialize(file) = [posts |-> posts, next_id |-> next_id]

\* C1: in a run started with a fresh manager the k-th create_post returns k
\* and after N calls of create_post next_id is N + 1, whatever other
\* operations were interleaved
C1_CreateReturnsKth ==
    /\ next_id = created + 1
    /\ (last.op = "create_post" => last.id = created)

\* a second create_post has just returned, after a delete_post removed a post
C1_Witness ==
    /\ last.op = "create_post" /\ created = 2 /\ deleted # {}

\* C2: an operation called with an id that is no key of posts changes neither
\* posts nor next_id nor the file, performs no save, and reports not-found
C2_AbsentIdIsNoOp ==
    [][(last'.op \in IdOps /\ last'.id \notin DOMAIN posts)
         => /\ posts' = posts /\ next_id' = next_id /\ file' = file
            /\ saves' = saves /\ lastSave' = lastSave
            /\ last'.found = FALSE /\ last'.out = "does not exist"]_vars

\* delete_post of an absent id has just been reported while posts exist and
\* the file holds a saved manager
C2_Witness ==
    /\ last.op = "delete_post" /\ ~last.found
    /\ DOMAIN posts # {} /\ file.kind = "json"

\* C3 as claimed: once a mutating operation has succeeded, the file holds
\* exactly the manager in memory in every state between two operations
C3_DurableAfterMutation == mutated => FileHoldsState

\* C3 amended: whenever the write of the most recent save succeeded, the
\* file holds exactly the manager in memory
C3_DurableWhenWritten == (mutated /\ lastSave = "ok") => FileHoldsState

\* a save was written after an earlier write had failed, with two posts held
C3_Witness ==
    /\ mutated /\ lastSave = "ok" /\ badWrites > 0
    /\ Cardinality(DOMAIN posts) = 2


\* C4: saving any manager state (in any iteration order of the map) and
\* constructing a manager from that file yields the same posts and next_id;
\* a restart after a save that was written resumes with the state held at exit
C4_RoundTrip ==
    /\ [](\A ord \in Orders(DOMAIN posts) :
            PostManager_new(Serialize(posts, next_id, ord))
              = [posts |-> posts, next_id |-> next_id])
    /\ [][(last'.op = "new" /\ lastSave = "ok")
            => (posts' = posts /\ next_id' = next_id)]_vars

\* a restart has loaded two posts, one with a comment, that the run before
\* had saved
C4_Witness ==
    /\ last.op = "new" /\ last.found /\ restarts > 0
    /\ saves > 0 /\ badWrites = 0
    /\ Cardinality(DOMAIN posts) = 2
    /\ \E k \in DOMAIN posts : posts[k].comments # << >>

\* C5: construction always yields a manager: the empty one with next_id 1
\* when the file is absent, unreadable or does not parse, the stored one
\* when it parses; and construction leaves the file as it is
C5_ConstructionSucceeds ==
    /\ [](last.op = "new" =>
            /\ IF file.kind = "json" /\ Parses(file)
               THEN /\ [posts |-> posts, next_id |-> next_id] = Deserialize(file)
                    /\ last.out = "loaded"
               ELSE /\ posts = EmptyMap /\ next_id = 1
                    /\ last.out = "empty"
            /\ (file = StoredDoc =>
                  /\ DOMAIN posts = {1}
                  /\ posts[1] = [id |-> 1, content |-> "a", comments |-> <<"x">>,
                                 likes |-> 1, dislikes |-> 0]
                  /\ next_id = 2))
    /\ [][last'.op = "new" => file' = file]_vars

\* a restart has found the file torn by a failed write and started empty
C5_Witness ==
    /\ last.op = "new" /\ restarts > 0 /\ saves > 0
    /\ file = Garbage /\ posts = EmptyMap /\ next_id = 1

\* sequence s is a prefix of sequence t
IsPrefix(s, t) == Len(s) <= Len(t) /\ SubSeq(t, 1, Len(s)) = s

\* C6: like_post on an existing id adds exactly 1 to that post's likes and
\* changes nothing else of it, no other post, not the key set, not next_id;
\* dislike_post does the same with dislikes
C6_LikeDislikeFrame ==
    [][/\ (last'.op = "like_post" /\ last'.id \in DOMAIN posts) =>
            /\ DOMAIN posts' = DOMAIN posts /\ next_id' = next_id
            /\ posts'[last'.id].likes = posts[last'.id].likes + 1
            /\ posts'[last'.id].dislikes = posts[last'.id].dislikes
            /\ posts'[last'.id].comments = posts[last'.id].comments
            /\ posts'[last'.id].content = posts[last'.id].content
            /\ posts'[last'.id].id = posts[last'.id].id
            /\ \A k \in DOMAIN posts \ {last'.id} : posts'[k] = posts[k]
       /\ (last'.op = "dislike_post" /\ last'.id \in DOMAIN posts) =>
            /\ DOMAIN posts' = DOMAIN posts /\ next_id' = next_id
            /\ posts'[last'.id].dislikes = posts[last'.id].dislikes + 1
            /\ posts'[last'.id].likes = posts[last'.id].likes
            /\ posts'[last'.id].comments = posts[last'.id].comments
            /\ posts'[last'.id].content = posts[last'.id].content
            /\ posts'[last'.id].id = posts[last'.id].id
            /\ \A k \in DOMAIN posts \ {last'.id} : posts'[k] = posts[k]]_vars

\* dislike_post has just been applied to a post that had a like, or
\* like_post to one of two posts
C6_Witness ==
    \/ /\ last.op = "dislike_post" /\ last.found
       /\ posts[last.id].likes = 1 /\ posts[last.id].dislikes = 1
    \/ /\ last.op = "like_post" /\ last.found
       /\ Cardinality(DOMAIN posts) = 2

\* C7: add_comment on an existing id appends the text as the last comment
\* and changes nothing else, so a post's comments are the texts of the
\* successful add_comment calls on its id, in call order
C7_CommentsAppend ==
    /\ [](\A k \in DOMAIN posts : posts[k].comments = log[k])
    /\ [][(last'.op = "add_comment" /\ last'.id \in DOMAIN posts) =>
            /\ DOMAIN posts' = DOMAIN posts /\ next_id' = next_id
            /\ Len(posts'[last'.id].comments) = Len(posts[last'.id].comments) + 1
            /\ IsPrefix(posts[last'.id].comments, posts'[last'.id].comments)
            /\ posts'[last'.id].comments[Len(posts'[last'.id].comments)] = last'.out
            /\ posts'[last'.id].likes = posts[last'.id].likes
            /\ posts'[last'.id].dislikes = posts[last'.id].dislikes
            /\ posts'[last'.id].content = posts[last'.id].content
            /\ posts'[last'.id].id = posts[last'.id].id
            /\ \A k \in DOMAIN posts \ {last'.id} : posts'[k] = posts[k]]_vars

\* a second, different comment has just been added to a post
C7_Witness ==
    /\ last.op = "add_comment" /\ last.found
    /\ Len(posts[last.id].comments) = 2
    /\ posts[last.id].comments[1] # posts[last.id].comments[2]

\* C8: within one run an id removed by delete_post is never again a key of
\* posts and is never returned by a later create_post
C8_DeletedIdNeverReused ==
    \A x \in deleted :
        /\ x \notin DOMAIN posts
        /\ (last.op = "create_post" => last.id # x)

\* create_post has just returned after a delete_post had removed a post
C8_Witness ==
    /\ deleted # {} /\ last.op = "create_post" /\ DOMAIN posts # {}

\* C9: in a run started empty, a post that is in the collection before and
\* after a step keeps its id and content, its counters do not decrease and
\* its comments only grow at the end; next_id never decreases
C9_PostsOnlyGrow ==
    [][/\ next_id' >= next_id
       /\ \A k \in DOMAIN posts \cap DOMAIN posts' :
            /\ posts'[k].id = posts[k].id
            /\ posts'[k].content = posts[k].content
            /\ posts'[k].likes >= posts[k].likes
            /\ posts'[k].dislikes >= posts[k].dislikes
            /\ IsPrefix(posts[k].comments, posts'[k].comments)]_vars

\* a post holds a like and a comment
C9_Witness ==
    \E k \in DOMAIN posts :
        /\ posts[k].likes + posts[k].dislikes > 0
        /\ posts[k].comments # << >>

\* C10: delete_post on an existing id removes exactly that key, leaves the
\* other posts and next_id as they are, and saves the resulting state: the
\* file holds it when the write succeeds
C10_DeleteFrame ==
    [][(last'.op = "delete_post" /\ last'.id \in DOMAIN posts) =>
         /\ DOMAIN posts' = DOMAIN posts \ {last'.id}
         /\ \A k \in DOMAIN posts' : posts'[k] = posts[k]
         /\ next_id' = next_id
         /\ last'.found /\ last'.out = "has been deleted"
         /\ saves' = saves + 1
         /\ (lastSave' = "ok" => FileHoldsState')]_vars

\* delete_post has just removed one of two posts and the save was written
C10_Witness ==
    /\ last.op = "delete_post" /\ last.found /\ lastSave = "ok"
    /\ Cardinality(DOMAIN posts) = 1 /\ next_id = 3

\* what the operation recorded in last' does to posts when it finds its post
EffectOnPosts ==
    CASE last'.op = "create_post" ->
           insert(posts, next_id, Post_new(next_id, last'.out))
      [] last'.op = "add_comment" ->
           [posts EXCEPT ![last'.id].comments = Append(@, last'.out)]
      [] last'.op = "like_post" ->
           [posts EXCEPT ![last'.id].likes = @ + 1]
      [] last'.op = "dislike_post" ->
           [posts EXCEPT ![last'.id].dislikes = @ + 1]
      [] last'.op = "delete_post" ->
           [k \in DOMAIN posts \ {last'.id} |-> posts[k]]
      [] OTHER -> posts

\* a step whose save_data failed to write: the operation completes (and
\* create_post returns the id it allocated), memory is changed as by a step
\* that saves, and save_data was called once
FailedSaveCompletes ==
    /\ saves' = saves + 1
    /\ pc' = "running"
    /\ posts' = EffectOnPosts
    /\ (last'.op = "create_post" =>
          /\ last'.id = next_id /\ next_id' = next_id + 1)
    /\ (last'.op # "create_post" => next_id' = next_id)

C12_CreateAddsEntry ==
    [][(last'.op = "create_post" /\ pc' = "running") =>
         /\ Cardinality(DOMAIN posts') = Cardinality(DOMAIN posts) + 1
         /\ \A k \in DOMAIN posts :
              k \in DOMAIN posts' /\ posts'[k] = posts[k]]_vars

\* C13: in a run started empty every key k of posts holds the post whose id
\* is k, with 1 <= k < next_id; share_post on an existing k displays
\* http://myapp.com/post/k; and a post just created is stored under the
\* returned id with the given content, no comments and both counters 0
C13_KeysAreIds ==
    /\ [](\A k \in DOMAIN posts :
             posts[k].id = k /\ 1 <= k /\ k < next_id)
    /\ [][(last'.op = "share_post" /\ last'.id \in DOMAIN posts) =>
            last'.out = <<"http://myapp.com/post/", ToDigits(last'.id)>>]_vars
    /\ [][last'.op = "create_post" =>
            /\ last'.id \in DOMAIN posts'
            /\ posts'[last'.id] =
                 [id |-> last'.id, content |-> last'.out, comments |-> << >>,
                  likes |-> 0, dislikes |-> 0]]_vars

\* share_post has just displayed the link of the second of two posts
C13_Witness ==
    /\ last.op = "share_post" /\ last.found /\ last.id = 2
    /\ DOMAIN posts = {1, 2} /\ next_id = 3

\* C14: when the id typed at the prompt is a word, the operation that
\* follows is given id 0, takes its not-found path and changes neither the
\* manager nor posts.json; when the menu choice typed is a word, only the
\* invalid-choice message is printed
C14_WordIsNotFound ==
    [][/\ (typed'.id = WordLine /\ pc' = "running") =>
            /\ last'.op \in IdOps /\ last'.id = 0 /\ ~last'.found
            /\ UNCHANGED <<posts, next_id, file>>
       /\ (typed'.choice = WordLine /\ pc' = "running") =>
            /\ last'.op = "invalid_choice"
            /\ UNCHANGED <<posts, next_id, file>>]_vars

\* C15: share_post and display_posts are read-only, also for an id that
\* exists: the step changes neither posts nor next_id, save_data is not
\* called and posts.json is as before
C15_ReadOnly ==
    [][last'.op \in {"share_post", "display_posts"} =>
         /\ UNCHANGED <<posts, next_id, file>>
         /\ saves' = saves /\ badWrites' = badWrites
         /\ lastSave' = lastSave]_vars

\* share_post has just displayed the link of a post, in a run that had saved
\* before
C15_Witness ==
    /\ last.op = "share_post" /\ last.found
    /\ last.out = share_link(posts[last.id])
    /\ saves > 0 /\ mutated

\* C16: like_post and dislike_post on an existing post return and leave the
\* counter exactly one higher, whatever value the counter held, the largest
\* usize included
C16_CounterGrowsByOne ==
    [][(last'.op \in {"like_post", "dislike_post"} /\ last'.id \in DOMAIN posts) =>
         /\ pc' = "running"
         /\ last'.op = "like_post" =>
              posts'[last'.id].likes = posts[last'.id].likes + 1
         /\ last'.op = "dislike_post" =>
              posts'[last'.id].dislikes = posts[last'.id].dislikes + 1]_vars

\* no counter of the manager is at the largest usize (the case of C16)
BelowMax ==
    /\ next_id < UsizeMax
    /\ \A k \in DOMAIN posts :
         posts[k].likes < UsizeMax /\ posts[k].dislikes < UsizeMax

\* C17: the menu loop ends only through choice 8: after any other input the
\* process has neither panicked nor aborted and is at the next prompt (stated
\* for the states in which no counter can overflow)
C17_OnlyExitEnds ==
    [][(pc = "running" /\ BelowMax) =>
         \/ pc' = "running"
         \/ pc' = "exited" /\ ChoiceOf[typed'.choice] = 8]_vars

\* C18: while every save has been written, a restart loads the next_id the
\* previous run ended with and create_post returns the next_id it finds, so
\* the first create_post of a run returns that next_id; and an id returned
\* in an earlier run is lower than every id returned in a later one, so it
\* is not returned again
C18_AllocationContinues ==
    /\ [][(restarts' = restarts + 1 /\ badWrites = 0) =>
            next_id' = next_id]_vars
    /\ [][last'.op = "create_post" => last'.id = next_id]_vars
    /\ [](badWrites = 0 =>
            \A a \in returned, b \in returned :
                a[1] < b[1] => a[2] < b[2])

\* create_post has returned an id in the first run and, after a restart, the
\* next id in the second run, and every save was written
C18_Witness ==
    /\ badWrites = 0 /\ restarts = 1
    /\ last.op = "create_post" /\ last.id = 2
    /\ returned = {<<0, 1>>, <<1, 2>>}
====
